---- MODULE Spec2Model ----
(***************************************************************************)
(* Model of src/i2c_mock.rs: I2cMock, the mock I2C device that emulates    *)
(* the HT16K33 display RAM (data_values) with auto-increment, wrap-around  *)
(* addressing, its private write / write_read functions and the blocking   *)
(* and asynchronous transaction() entry points.                            *)
(*                                                                         *)
(* Rust arrays and slices are 0-indexed; they are modelled as TLA+         *)
(* sequences, so the Rust element x[i] is the TLA+ element x[i + 1].       *)
(* A panic (index out of bounds, todo!()) is the outcome "panic".          *)
(***************************************************************************)
EXTENDS Integers, Sequences, FiniteSets

VARIABLES
    data_values,  \* I2cMock::data_values, the display RAM
    pc,           \* "idle" | "loop" | "returned" | "panicked"
    ncalls,       \* number of calls completed on this I2cMock
    call,         \* the call in progress or last made: function, arguments
                  \* (address, bytes, buffer as passed)
    prev,         \* the call made before `call`, with its buffer as it left it
    result,       \* "none" | "Ok" | "Err" | "panic"
    buffer,       \* the read buffer of the last write_read, after the call
    old_values,   \* data_values when the last call began
    start_ops,    \* transaction(): the operation list as the caller passed it
    operations,   \* transaction(): the remaining slice `operations`
    filled,       \* transaction(): the operations split off so far, with
                  \* their buffers as the call left them
    routed        \* transaction(): the write / write_read calls made so far

vars == <<data_values, pc, ncalls, call, prev, result, buffer, old_values,
          start_ops, operations, filled, routed>>

----------------------------------------------------------------------------
(* Program constants *)

\* crate::constants::ROWS_SIZE, the length of data_values.
ROWS_SIZE == 16

\* DisplayDataAddress::ROW_0.bits(), the command byte selecting row 0.
ROW_0 == 0

----------------------------------------------------------------------------
(* Bounds of the model *)

\* Longest payload / read buffer handed to write and write_read directly.
MaxLen == 34

\* Longest operation list handed to transaction().
MaxOps == 3

\* Number of transaction() calls made on one I2cMock.
MaxCalls == 2

----------------------------------------------------------------------------
(* u8 arithmetic *)

Byte == 0..255

RECURSIVE BitXor(_, _, _)
BitXor(a, b, n) ==
    IF n = 0 THEN 0
    ELSE (((a % 2) + (b % 2)) % 2) + 2 * BitXor(a \div 2, b \div 2, n - 1)

\* `x ^ y` on u8
xor_u8(x, y) == BitXor(x, y, 8)

RECURSIVE BitOr(_, _, _)
BitOr(a, b, n) ==
    IF n = 0 THEN 0
    ELSE (IF (a % 2) + (b % 2) > 0 THEN 1 ELSE 0) + 2 * BitOr(a \div 2, b \div 2, n - 1)

\* `x | y` on u8
or_u8(x, y) == BitOr(x, y, 8)

----------------------------------------------------------------------------
(* I2cMock::new *)

new == [i \in 1..ROWS_SIZE |-> 0]

----------------------------------------------------------------------------
(* I2cMock::write_read *)

\* for value in buffer.iter_mut() { *value = self.data_values[data_offset];
\*     data_offset = (data_offset + 1) % self.data_values.len(); }
\* i is the 1-based position of `value` in buffer.
\* Mutant: a plain array copy, which stops at the end of data_values
\* instead of resuming at index 0.
RECURSIVE write_read_loop_no_wrap(_, _, _, _)
write_read_loop_no_wrap(dv, data_offset, buf, i) ==
    IF i > Len(buf) \/ data_offset >= Len(dv)
    THEN [result |-> "Ok", data_values |-> dv, buffer |-> buf]
    ELSE write_read_loop_no_wrap(dv, data_offset + 1,
                                 [buf EXCEPT ![i] = dv[data_offset + 1]], i + 1)

\* Mutant: the assignment runs the wrong way; the buffer's bytes are stored
\* into data_values.
RECURSIVE write_read_loop_stores(_, _, _, _)
write_read_loop_stores(dv, data_offset, buf, i) ==
    IF i > Len(buf)
    THEN [result |-> "Ok", data_values |-> dv, buffer |-> buf]
    ELSE IF data_offset >= Len(dv)
    THEN [result |-> "panic", data_values |-> dv, buffer |-> buf]
    ELSE write_read_loop_stores([dv EXCEPT ![data_offset + 1] = buf[i]],
                                (data_offset + 1) % Len(dv), buf, i + 1)

RECURSIVE write_read_loop(_, _, _, _)
write_read_loop(dv, data_offset, buf, i) ==
    IF i > Len(buf)
    THEN [result |-> "Ok", data_values |-> dv, buffer |-> buf]
    ELSE IF data_offset >= Len(dv)
    THEN [result |-> "panic", data_values |-> dv, buffer |-> buf]
    ELSE write_read_loop(dv, (data_offset + 1) % Len(dv),
                         [buf EXCEPT ![i] = dv[data_offset + 1]], i + 1)

\* Mutant: the starting index is not extracted from the command byte; the
\* read always starts at index 0.
write_read_from_zero(address, dv, bytes, buf) ==
    IF Len(bytes) = 0
    THEN [result |-> "panic", data_values |-> dv, buffer |-> buf]
    ELSE write_read_loop(dv, 0, buf, 1)

\* Mutant: the device address is honoured; a read addressed to any device
\* but 0 finds no device and leaves the buffer as passed.
write_read_checks_address(address, dv, bytes, buf) ==
    IF Len(bytes) = 0
    THEN [result |-> "panic", data_values |-> dv, buffer |-> buf]
    ELSE IF address # 0
    THEN [result |-> "Ok", data_values |-> dv, buffer |-> buf]
    ELSE write_read_loop(dv, xor_u8(bytes[1], ROW_0), buf, 1)

write_read(address, dv, bytes, buf) ==
    IF Len(bytes) = 0
    THEN [result |-> "panic", data_values |-> dv, buffer |-> buf]
    ELSE write_read_loop(dv, xor_u8(bytes[1], ROW_0), buf, 1)

----------------------------------------------------------------------------
(* I2cMock::write *)

\* for value in data.iter() { self.data_values[data_offset] = *value;
\*     data_offset = (data_offset + 1) % self.data_values.len(); }
\* i is the 1-based position of `value` in data.
\* Mutant: the offset is incremented without the modulo, so the access
\* after the last index is out of bounds.
RECURSIVE write_loop_no_modulo(_, _, _, _)
write_loop_no_modulo(dv, data_offset, data, i) ==
    IF i > Len(data)
    THEN [result |-> "Ok", data_values |-> dv]
    ELSE IF data_offset >= Len(dv)
    THEN [result |-> "panic", data_values |-> dv]
    ELSE write_loop_no_modulo([dv EXCEPT ![data_offset + 1] = data[i]],
                              data_offset + 1, data, i + 1)

\* Mutant: the store stops at the end of data_values instead of resuming
\* at index 0; the bytes that would wrap are dropped.
RECURSIVE write_loop_stop_at_end(_, _, _, _)
write_loop_stop_at_end(dv, data_offset, data, i) ==
    IF i > Len(data) \/ data_offset >= Len(dv)
    THEN [result |-> "Ok", data_values |-> dv]
    ELSE write_loop_stop_at_end([dv EXCEPT ![data_offset + 1] = data[i]],
                                data_offset + 1, data, i + 1)

RECURSIVE write_loop_xor_store(_, _, _, _)
write_loop_xor_store(dv, data_offset, data, i) ==
    IF i > Len(data)
    THEN [result |-> "Ok", data_values |-> dv]
    ELSE IF data_offset >= Len(dv)
    THEN [result |-> "panic", data_values |-> dv]
    ELSE write_loop_xor_store(
             [dv EXCEPT ![data_offset + 1] = xor_u8(dv[data_offset + 1], data[i])],
             (data_offset + 1) % Len(dv), data, i + 1)

RECURSIVE write_loop(_, _, _, _)
write_loop(dv, data_offset, data, i) ==
    IF i > Len(data)
    THEN [result |-> "Ok", data_values |-> dv]
    ELSE IF data_offset >= Len(dv)
    THEN [result |-> "panic", data_values |-> dv]
    ELSE write_loop([dv EXCEPT ![data_offset + 1] = data[i]],
                    (data_offset + 1) % Len(dv), data, i + 1)

\* Mutant: no special case for a length-1 write; its single byte is taken
\* for a data byte and stored at index 0.
write_single_as_data(address, dv, bytes) ==
    IF Len(bytes) = 0
    THEN [result |-> "panic", data_values |-> dv]
    ELSE IF Len(bytes) = 1
    THEN write_loop(dv, 0, bytes, 1)
    ELSE write_loop(dv, xor_u8(bytes[1], ROW_0), Tail(bytes), 1)

write(address, dv, bytes) ==
    IF Len(bytes) = 1
    THEN [result |-> "Ok", data_values |-> dv]
    ELSE IF Len(bytes) = 0
    THEN [result |-> "panic", data_values |-> dv]
    ELSE write_loop(dv, xor_u8(bytes[1], ROW_0), Tail(bytes), 1)

----------------------------------------------------------------------------
(* Inputs *)

\* The command byte [base_command | o]
command(o) == or_u8(ROW_0, o)

\* A caller's read buffer of length k before the call.
fresh_buffer(k) == [i \in 1..k |-> 170]

\* Payload of k distinct consecutive bytes starting at a (wrapping as u8).
ramp(a, k) == [i \in 1..k |-> (a + i - 1) % 256]

PayloadStarts == {1, 240}

\* Display RAM contents a caller can have set up before the call under
\* study: untouched, the tests' pre-seeding, and two full-length writes.
PriorContents ==
    { new,
      [i \in 1..ROWS_SIZE |-> IF i \in {3, 4} THEN 1 ELSE 0],
      [i \in 1..ROWS_SIZE |-> 99 + i],
      [i \in 1..ROWS_SIZE |-> 255] }

\* The device addresses callers pass: the tests' ADDRESS and the HT16K33's.
Addresses == {0, 112}

NoCall == [fn |-> "none", address |-> 0, bytes |-> <<>>, buffer |-> <<>>]

----------------------------------------------------------------------------
(* Direct calls of write and write_read, as the unit tests make them *)

InitUnit ==
    /\ data_values \in PriorContents
    /\ pc = "idle"
    /\ ncalls = 0
    /\ call = NoCall
    /\ prev = NoCall
    /\ result = "none"
    /\ buffer = <<>>
    /\ old_values = data_values
    /\ start_ops = <<>>
    /\ operations = <<>>
    /\ filled = <<>>
    /\ routed = <<>>

WriteInputs ==
    {<<>>} \cup
    { <<c>> \o ramp(a, k) : c \in Byte, a \in PayloadStarts, k \in 0..MaxLen }

WriteReadInputs ==
    { <<bytes, fresh_buffer(k)>> : bytes \in {<<>>} \cup {<<c>> : c \in Byte},
                                   k \in 0..MaxLen }

call_write ==
    /\ pc = "idle"
    /\ \E a \in Addresses, bytes \in WriteInputs :
        LET r == write(a, data_values, bytes) IN
        /\ data_values' = r.data_values
        /\ result' = r.result
        /\ pc' = IF r.result = "panic" THEN "panicked" ELSE "returned"
        /\ call' = [fn |-> "write", address |-> a, bytes |-> bytes,
                    buffer |-> <<>>]
    /\ old_values' = data_values
    /\ prev' = [call EXCEPT !.buffer = buffer]
    /\ buffer' = <<>>
    /\ ncalls' = ncalls + 1
    /\ UNCHANGED <<start_ops, operations, filled, routed>>

call_write_read ==
    /\ pc = "idle"
    /\ \E a \in Addresses, in \in WriteReadInputs :
        LET r == write_read(a, data_values, in[1], in[2]) IN
        /\ data_values' = r.data_values
        /\ buffer' = r.buffer
        /\ result' = r.result
        /\ pc' = IF r.result = "panic" THEN "panicked" ELSE "returned"
        /\ call' = [fn |-> "write_read", address |-> a, bytes |-> in[1],
                    buffer |-> in[2]]
    /\ old_values' = data_values
    /\ prev' = [call EXCEPT !.buffer = buffer]
    /\ ncalls' = ncalls + 1
    /\ UNCHANGED <<start_ops, operations, filled, routed>>

\* The round trip: after a write with a payload returned, read back as many
\* bytes as were written, from the same command byte.
read_back ==
    /\ pc = "returned"
    /\ call.fn = "write"
    /\ Len(call.bytes) >= 2
    /\ LET bytes == <<call.bytes[1]>>
           buf == fresh_buffer(Len(call.bytes) - 1)
           r == write_read(call.address, data_values, bytes, buf) IN
        /\ data_values' = r.data_values
        /\ buffer' = r.buffer
        /\ result' = r.result
        /\ pc' = IF r.result = "panic" THEN "panicked" ELSE "returned"
        /\ call' = [fn |-> "write_read", address |-> call.address,
                    bytes |-> bytes, buffer |-> buf]
    /\ old_values' = data_values
    /\ prev' = [call EXCEPT !.buffer = buffer]
    /\ ncalls' = ncalls + 1
    /\ UNCHANGED <<start_ops, operations, filled, routed>>

\* The same write once more, right after it returned.
write_again ==
    /\ pc = "returned"
    /\ call.fn = "write"
    /\ ncalls < MaxCalls
    /\ LET r == write(call.address, data_values, call.bytes) IN
        /\ data_values' = r.data_values
        /\ result' = r.result
        /\ pc' = IF r.result = "panic" THEN "panicked" ELSE "returned"
    /\ old_values' = data_values
    /\ prev' = [call EXCEPT !.buffer = buffer]
    /\ buffer' = <<>>
    /\ ncalls' = ncalls + 1
    /\ UNCHANGED <<call, start_ops, operations, filled, routed>>

\* The same write_read once more, into a fresh buffer of the same length,
\* right after it returned.
write_read_again ==
    /\ pc = "returned"
    /\ call.fn = "write_read"
    /\ ncalls < MaxCalls
    /\ LET r == write_read(call.address, data_values, call.bytes, call.buffer) IN
        /\ data_values' = r.data_values
        /\ buffer' = r.buffer
        /\ result' = r.result
        /\ pc' = IF r.result = "panic" THEN "panicked" ELSE "returned"
    /\ old_values' = data_values
    /\ prev' = [call EXCEPT !.buffer = buffer]
    /\ ncalls' = ncalls + 1
    /\ UNCHANGED <<call, start_ops, operations, filled, routed>>

NextUnit ==
    \/ call_write
    \/ call_write_read
    \/ read_back
    \/ write_again
    \/ write_read_again

SpecUnit == InitUnit /\ [][NextUnit]_vars

----------------------------------------------------------------------------
(* hal::i2c::Operation and the two transaction() implementations *)

\* Operation::Write(&[u8]) and Operation::Read(&mut [u8])
Write(bytes) == [kind |-> "Write", bytes |-> bytes]
Read(buf) == [kind |-> "Read", bytes |-> buf]

\* Mutant: the look-ahead for a following Read is missing; every Write goes
\* to write alone and the Read is met by the next iteration.
blocking_iteration_unpaired(address, dv, ops) ==
    LET first == Head(ops)
        rest == Tail(ops) IN
    IF first.kind = "Read"
    THEN [outcome |-> "panic", data_values |-> dv, operations |-> rest,
          done |-> <<first>>, calls |-> <<>>]
    ELSE LET r == write(address, dv, first.bytes) IN
         [outcome |-> r.result, data_values |-> r.data_values,
          operations |-> rest,
          done |-> <<first>>,
          calls |-> <<[fn |-> "write", n |-> 1, bytes |-> first.bytes,
                       buffer |-> <<>>]>>]

\* Mutant: the Write of a Write+Read pair is stored by write before the pair
\* goes to write_read.
blocking_iteration_stores_setup(address, dv, ops) ==
    LET first == Head(ops)
        rest == Tail(ops) IN
    IF first.kind = "Read"
    THEN [outcome |-> "panic", data_values |-> dv, operations |-> rest,
          done |-> <<first>>, calls |-> <<>>]
    ELSE IF rest # <<>> /\ Head(rest).kind = "Read"
    THEN LET w == write(address, dv, first.bytes)
             r == write_read(address, w.data_values, first.bytes, Head(rest).bytes) IN
         [outcome |-> IF w.result = "Ok" THEN r.result ELSE w.result,
          data_values |-> r.data_values,
          operations |-> Tail(rest),
          done |-> <<first, Read(r.buffer)>>,
          calls |-> <<[fn |-> "write_read", n |-> 2, bytes |-> first.bytes,
                       buffer |-> Head(rest).bytes]>>]
    ELSE LET r == write(address, dv, first.bytes) IN
         [outcome |-> r.result, data_values |-> r.data_values,
          operations |-> rest,
          done |-> <<first>>,
          calls |-> <<[fn |-> "write", n |-> 1, bytes |-> first.bytes,
                       buffer |-> <<>>]>>]

\* Mutant: `operations = rest` is made only on the write_read path; after a
\* Write handled alone the slice is not advanced.
blocking_iteration_no_advance(address, dv, ops) ==
    LET first == Head(ops)
        rest == Tail(ops) IN
    IF first.kind = "Read"
    THEN [outcome |-> "panic", data_values |-> dv, operations |-> rest,
          done |-> <<first>>, calls |-> <<>>]
    ELSE IF rest # <<>> /\ Head(rest).kind = "Read"
    THEN LET r == write_read(address, dv, first.bytes, Head(rest).bytes) IN
         [outcome |-> r.result, data_values |-> r.data_values,
          operations |-> Tail(rest),
          done |-> <<first, Read(r.buffer)>>,
          calls |-> <<[fn |-> "write_read", n |-> 2, bytes |-> first.bytes,
                       buffer |-> Head(rest).bytes]>>]
    ELSE LET r == write(address, dv, first.bytes) IN
         [outcome |-> r.result, data_values |-> r.data_values,
          operations |-> ops,
          done |-> <<>>,
          calls |-> <<[fn |-> "write", n |-> 1, bytes |-> first.bytes,
                       buffer |-> <<>>]>>]

\* Mutant: the look-ahead for a Read searches the whole rest of the slice;
\* a Write that any later Read follows is taken as address setup and is not
\* stored.
blocking_iteration_defers_write(address, dv, ops) ==
    LET first == Head(ops)
        rest == Tail(ops) IN
    IF first.kind = "Read"
    THEN [outcome |-> "panic", data_values |-> dv, operations |-> rest,
          done |-> <<first>>, calls |-> <<>>]
    ELSE IF rest # <<>> /\ Head(rest).kind = "Read"
    THEN LET r == write_read(address, dv, first.bytes, Head(rest).bytes) IN
         [outcome |-> r.result, data_values |-> r.data_values,
          operations |-> Tail(rest),
          done |-> <<first, Read(r.buffer)>>,
          calls |-> <<[fn |-> "write_read", n |-> 2, bytes |-> first.bytes,
                       buffer |-> Head(rest).bytes]>>]
    ELSE IF \E i \in 1..Len(rest) : rest[i].kind = "Read"
    THEN [outcome |-> "Ok", data_values |-> dv, operations |-> rest,
          done |-> <<first>>, calls |-> <<>>]
    ELSE LET r == write(address, dv, first.bytes) IN
         [outcome |-> r.result, data_values |-> r.data_values,
          operations |-> rest,
          done |-> <<first>>,
          calls |-> <<[fn |-> "write", n |-> 1, bytes |-> first.bytes,
                       buffer |-> <<>>]>>]

\* One iteration of the `while let` loop of blocking::transaction over the
\* non-empty remaining slice ops: the outcome of the iteration ("Ok" to go
\* on, "Err" for an early return by `?`, "panic"), data_values after it,
\* the remaining slice, the operations split off with their buffers as the
\* iteration left them, and the call it made.
blocking_iteration(address, dv, ops) ==
    LET first == Head(ops)
        rest == Tail(ops) IN
    IF first.kind = "Read"
    THEN [outcome |-> "panic", data_values |-> dv, operations |-> rest,
          done |-> <<first>>, calls |-> <<>>]
    ELSE IF rest # <<>> /\ Head(rest).kind = "Read"
    THEN LET r == write_read(address, dv, first.bytes, Head(rest).bytes) IN
         [outcome |-> r.result, data_values |-> r.data_values,
          operations |-> Tail(rest),
          done |-> <<first, Read(r.buffer)>>,
          calls |-> <<[fn |-> "write_read", n |-> 2, bytes |-> first.bytes,
                       buffer |-> Head(rest).bytes]>>]
    ELSE LET r == write(address, dv, first.bytes) IN
         [outcome |-> r.result, data_values |-> r.data_values,
          operations |-> rest,
          done |-> <<first>>,
          calls |-> <<[fn |-> "write", n |-> 1, bytes |-> first.bytes,
                       buffer |-> <<>>]>>]

\* Mutant: a Read with no Write before it is served as a read from index 0
\* instead of reaching todo!().
non_blocking_iteration_serves_read(address, dv, ops) ==
    LET first == Head(ops)
        rest == Tail(ops) IN
    IF first.kind = "Read"
    THEN LET r == write_read(address, dv, <<ROW_0>>, first.bytes) IN
         [outcome |-> r.result, data_values |-> r.data_values,
          operations |-> rest,
          done |-> <<Read(r.buffer)>>, calls |-> <<>>]
    ELSE IF rest # <<>> /\ Head(rest).kind = "Read"
    THEN LET r == write_read(address, dv, first.bytes, Head(rest).bytes) IN
         [outcome |-> r.result, data_values |-> r.data_values,
          operations |-> Tail(rest),
          done |-> <<first, Read(r.buffer)>>,
          calls |-> <<[fn |-> "write_read", n |-> 2, bytes |-> first.bytes,
                       buffer |-> Head(rest).bytes]>>]
    ELSE LET r == write(address, dv, first.bytes) IN
         [outcome |-> r.result, data_values |-> r.data_values,
          operations |-> rest,
          done |-> <<first>>,
          calls |-> <<[fn |-> "write", n |-> 1, bytes |-> first.bytes,
                       buffer |-> <<>>]>>]

\* Mutant: the payload of the Write of a Write+Read pair is stored by write
\* before the pair is read by write_read.
non_blocking_iteration_stores_setup(address, dv, ops) ==
    LET first == Head(ops)
        rest == Tail(ops) IN
    IF first.kind = "Read"
    THEN [outcome |-> "panic", data_values |-> dv, operations |-> rest,
          done |-> <<first>>, calls |-> <<>>]
    ELSE IF rest # <<>> /\ Head(rest).kind = "Read"
    THEN LET w == write(address, dv, first.bytes)
             r == write_read(address, w.data_values, first.bytes, Head(rest).bytes) IN
         [outcome |-> IF w.result = "Ok" THEN r.result ELSE w.result,
          data_values |-> r.data_values,
          operations |-> Tail(rest),
          done |-> <<first, Read(r.buffer)>>,
          calls |-> <<[fn |-> "write_read", n |-> 2, bytes |-> first.bytes,
                       buffer |-> Head(rest).bytes]>>]
    ELSE LET r == write(address, dv, first.bytes) IN
         [outcome |-> r.result, data_values |-> r.data_values,
          operations |-> rest,
          done |-> <<first>>,
          calls |-> <<[fn |-> "write", n |-> 1, bytes |-> first.bytes,
                       buffer |-> <<>>]>>]

\* The same iteration of non_blocking::transaction.
non_blocking_iteration(address, dv, ops) ==
    LET first == Head(ops)
        rest == Tail(ops) IN
    IF first.kind = "Read"
    THEN [outcome |-> "panic", data_values |-> dv, operations |-> rest,
          done |-> <<first>>, calls |-> <<>>]
    ELSE IF rest # <<>> /\ Head(rest).kind = "Read"
    THEN LET r == write_read(address, dv, first.bytes, Head(rest).bytes) IN
         [outcome |-> r.result, data_values |-> r.data_values,
          operations |-> Tail(rest),
          done |-> <<first, Read(r.buffer)>>,
          calls |-> <<[fn |-> "write_read", n |-> 2, bytes |-> first.bytes,
                       buffer |-> Head(rest).bytes]>>]
    ELSE LET r == write(address, dv, first.bytes) IN
         [outcome |-> r.result, data_values |-> r.data_values,
          operations |-> rest,
          done |-> <<first>>,
          calls |-> <<[fn |-> "write", n |-> 1, bytes |-> first.bytes,
                       buffer |-> <<>>]>>]

\* The whole of blocking::transaction(ops) from data_values dv: its result,
\* the final data_values and the operations with their buffers (those not
\* reached are as the caller passed them).
RECURSIVE blocking_transaction(_, _, _, _)
blocking_transaction(address, dv, ops, done) ==
    IF ops = <<>>
    THEN [result |-> "Ok", data_values |-> dv, operations |-> done]
    ELSE LET it == blocking_iteration(address, dv, ops) IN
         IF it.outcome = "Ok"
         THEN blocking_transaction(address, it.data_values, it.operations, done \o it.done)
         ELSE [result |-> it.outcome, data_values |-> it.data_values,
               operations |-> done \o it.done \o it.operations]

\* The whole of non_blocking::transaction(ops), polled to completion.
RECURSIVE non_blocking_transaction(_, _, _, _)
non_blocking_transaction(address, dv, ops, done) ==
    IF ops = <<>>
    THEN [result |-> "Ok", data_values |-> dv, operations |-> done]
    ELSE LET it == non_blocking_iteration(address, dv, ops) IN
         IF it.outcome = "Ok"
         THEN non_blocking_transaction(address, it.data_values, it.operations, done \o it.done)
         ELSE [result |-> it.outcome, data_values |-> it.data_values,
               operations |-> done \o it.done \o it.operations]

\* Command bytes given to transaction(): offsets 0 and ROWS_SIZE - 1, and
\* the first command byte whose offset bits are out of range.
TxnCommands == {command(0), command(ROWS_SIZE - 1), xor_u8(ROW_0, ROWS_SIZE)}

TxnPayloads == {<<>>, <<1, 2>>}

TxnOps ==
    {Write(<<>>)}
    \cup {Write(<<c>> \o p) : c \in TxnCommands, p \in TxnPayloads}
    \cup {Read(fresh_buffer(k)) : k \in {2, ROWS_SIZE + 2}}

OpLists == UNION {[1..n -> TxnOps] : n \in 0..MaxOps}

Init ==
    /\ data_values = new
    /\ pc = "idle"
    /\ ncalls = 0
    /\ call = NoCall
    /\ prev = NoCall
    /\ result = "none"
    /\ buffer = <<>>
    /\ old_values = data_values
    /\ start_ops = <<>>
    /\ operations = <<>>
    /\ filled = <<>>
    /\ routed = <<>>

\* The caller invokes transaction(address, operations) of one of the two
\* trait implementations.
transaction_begin(fn) ==
    /\ pc = "idle"
    /\ ncalls < MaxCalls
    /\ \E a \in Addresses, ops \in OpLists :
        /\ start_ops' = ops
        /\ operations' = ops
        /\ call' = [fn |-> fn, address |-> a, bytes |-> <<>>, buffer |-> <<>>]
    /\ pc' = "loop"
    /\ prev' = [call EXCEPT !.buffer = buffer]
    /\ result' = "none"
    /\ buffer' = <<>>
    /\ old_values' = data_values
    /\ filled' = <<>>
    /\ routed' = <<>>
    /\ ncalls' = ncalls + 1
    /\ UNCHANGED data_values

\* One iteration of the loop, given what the implementation's iteration
\* computes.
loop_step(it) ==
    /\ data_values' = it.data_values
    /\ operations' = it.operations
    /\ filled' = filled \o it.done
    /\ routed' = routed \o
          [j \in 1..Len(it.calls) |->
              [fn |-> it.calls[j].fn, at |-> Len(filled) + 1,
               n |-> it.calls[j].n, bytes |-> it.calls[j].bytes,
               buffer |-> it.calls[j].buffer]]
    /\ IF it.outcome = "Ok"
       THEN pc' = "loop" /\ result' = result
       ELSE /\ result' = it.outcome
            /\ pc' = IF it.outcome = "panic" THEN "panicked" ELSE "returned"
    /\ UNCHANGED <<ncalls, call, prev, buffer, old_values, start_ops>>

blocking_step ==
    /\ pc = "loop"
    /\ call.fn = "blocking::transaction"
    /\ operations # <<>>
    /\ \E it \in {blocking_iteration(call.address, data_values, operations)} :
          loop_step(it)

non_blocking_step ==
    /\ pc = "loop"
    /\ call.fn = "non_blocking::transaction"
    /\ operations # <<>>
    /\ \E it \in {non_blocking_iteration(call.address, data_values, operations)} :
          loop_step(it)

\* split_first_mut() gave None: the loop ends and transaction returns Ok(()).
transaction_return ==
    /\ pc = "loop"
    /\ operations = <<>>
    /\ pc' = "returned"
    /\ result' = "Ok"
    /\ UNCHANGED <<data_values, ncalls, call, prev, buffer, old_values,
                   start_ops, operations, filled, routed>>

\* The caller takes the result and the buffers and goes on to its next call.
caller_continues ==
    /\ pc = "returned"
    /\ call.fn \in {"blocking::transaction", "non_blocking::transaction"}
    /\ pc' = "idle"
    /\ result' = "none"
    /\ start_ops' = <<>>
    /\ operations' = <<>>
    /\ filled' = <<>>
    /\ routed' = <<>>
    /\ call' = NoCall
    /\ UNCHANGED <<data_values, ncalls, prev, buffer, old_values>>

Next ==
    \/ transaction_begin("blocking::transaction")
    \/ transaction_begin("non_blocking::transaction")
    \/ blocking_step
    \/ non_blocking_step
    \/ transaction_return
    \/ caller_continues

Spec == Init /\ [][Next]_vars

\* One transaction() call, made on a cleared RAM or on a RAM that holds
\* other values, followed to its end.
InitCall ==
    /\ data_values \in {new, ramp(100, ROWS_SIZE)}
    /\ pc = "idle"
    /\ ncalls = 0
    /\ call = NoCall
    /\ prev = NoCall
    /\ result = "none"
    /\ buffer = <<>>
    /\ old_values = data_values
    /\ start_ops = <<>>
    /\ operations = <<>>
    /\ filled = <<>>
    /\ routed = <<>>

NextCall ==
    \/ transaction_begin("blocking::transaction")
    \/ transaction_begin("non_blocking::transaction")
    \/ blocking_step
    \/ non_blocking_step
    \/ transaction_return

\* transaction() runs synchronously: once called, its loop keeps iterating
\* and the call returns when the slice is empty.
FairSpec ==
    /\ InitCall
    /\ [][NextCall]_vars
    /\ WF_vars(blocking_step)
    /\ WF_vars(non_blocking_step)
    /\ WF_vars(transaction_return)

-----
(* Properties of write and write_read *)

Offsets == 0..(ROWS_SIZE - 1)

\* The payload positions i (0-based) that land on RAM index j (0-based)
\* when k bytes are stored from offset o with wrap-around.
visits(o, k, j) == { i \in 0..(k - 1) : (o + i) % ROWS_SIZE = j }

max_of(S) == CHOOSE x \in S : \A y \in S : y <= x

\* The state right after write(bytes) was called on its own.
after_write == call.fn = "write" /\ pc \in {"returned", "panicked"}

\* The state right after write_read(bytes, buffer) was called.
after_write_read == call.fn = "write_read" /\ pc \in {"returned", "panicked"}

\* C1 (write locality): after write([base_command | o] ++ p) with
\* 1 <= len(p) <= ROWS_SIZE and o in [0, ROWS_SIZE), the call has returned
\* Ok, data_values[(o+i) mod ROWS_SIZE] = p[i] for every i < len(p), and
\* every other index holds the value it held before the call.
C1_WriteLocality ==
    \A o \in Offsets :
        ( /\ after_write
          /\ Len(call.bytes) >= 2
          /\ Len(call.bytes) - 1 <= ROWS_SIZE
          /\ call.bytes[1] = command(o) )
        => LET p == Tail(call.bytes)
               k == Len(p) IN
           /\ result = "Ok"
           /\ Len(data_values) = ROWS_SIZE
           /\ \A i \in 0..(k - 1) :
                 data_values[((o + i) % ROWS_SIZE) + 1] = p[i + 1]
           /\ \A j \in Offsets :
                 visits(o, k, j) = {} => data_values[j + 1] = old_values[j + 1]

\* A write of 3 bytes at offset 15 over a non-zero RAM has returned: it
\* wrapped to indices 0 and 1 and left index 2 as it was.
C1_Witness ==
    /\ after_write
    /\ call.bytes = <<command(15), 1, 2, 3>>
    /\ result = "Ok"
    /\ old_values[1] = 100
    /\ data_values[16] = 1 /\ data_values[1] = 2 /\ data_values[2] = 3
    /\ data_values[3] = 102

\* C2 (read locality): after write_read([base_command | o], buffer) with o
\* in [0, ROWS_SIZE) and a buffer of any length k, the call has returned Ok,
\* buffer[i] = data_values[(o+i) mod ROWS_SIZE] for every i < k, and
\* data_values is what it was before the call.
C2_ReadLocality ==
    \A o \in Offsets :
        ( /\ after_write_read
          /\ call.bytes = <<command(o)>> )
        => /\ result = "Ok"
           /\ Len(buffer) = Len(call.buffer)
           /\ \A i \in 0..(Len(buffer) - 1) :
                 buffer[i + 1] = old_values[((o + i) % ROWS_SIZE) + 1]
           /\ data_values = old_values

\* A read of more than 2*ROWS_SIZE bytes from offset 4 of a RAM holding
\* 100..115 has returned, its last byte being the third visit of index 4.
C2_Witness ==
    /\ after_write_read
    /\ prev.fn = "none"
    /\ call.bytes = <<command(4)>>
    /\ Len(call.buffer) = 2 * ROWS_SIZE + 1
    /\ result = "Ok"
    /\ old_values[5] = 104
    /\ buffer[1] = 104 /\ buffer[13] = 100 /\ buffer[2 * ROWS_SIZE + 1] = 104

\* C3 (write wraparound): after write([base_command | o] ++ p) with o in
\* [0, ROWS_SIZE) and a payload of any length k >= 1, the call has returned
\* Ok, every index j that the wrapping walk visited holds p[i] for the
\* largest i < k with (o+i) mod ROWS_SIZE = j, and the indices never visited
\* are unchanged.
C3_WriteWraparound ==
    \A o \in Offsets :
        ( /\ after_write
          /\ Len(call.bytes) >= 2
          /\ call.bytes[1] = command(o) )
        => LET p == Tail(call.bytes)
               k == Len(p) IN
           /\ result = "Ok"
           /\ \A j \in Offsets :
                 LET I == visits(o, k, j) IN
                 data_values[j + 1] =
                     IF I = {} THEN old_values[j + 1] ELSE p[max_of(I) + 1]

\* A write of 2*ROWS_SIZE + 2 bytes at offset 9 has returned: indices 9 and
\* 10 were visited three times and hold the last two payload bytes, index
\* 11 was visited twice.
C3_Witness ==
    /\ after_write
    /\ call.bytes = <<command(9)>> \o ramp(1, 2 * ROWS_SIZE + 2)
    /\ result = "Ok"
    /\ old_values[10] = 255
    /\ data_values[10] = 2 * ROWS_SIZE + 1
    /\ data_values[11] = 2 * ROWS_SIZE + 2
    /\ data_values[12] = ROWS_SIZE + 3

\* C4 (command-only no-op): after write([c]) for any command byte c, the
\* call has returned Ok and data_values is what it was before the call.
C4_CommandOnlyNoOp ==
    ( /\ after_write
      /\ Len(call.bytes) = 1 )
    => /\ result = "Ok"
       /\ data_values = old_values

\* write([0xFF]), whose offset bits are far out of range, has returned Ok
\* over a non-zero RAM.
C4_Witness ==
    /\ after_write
    /\ call.bytes = <<255>>
    /\ xor_u8(255, ROW_0) >= ROWS_SIZE
    /\ result = "Ok"
    /\ old_values[1] = 100
    /\ data_values = old_values

\* C5 (write/read round trip): when write([base_command | o] ++ p) with
\* 1 <= len(p) <= ROWS_SIZE is followed by write_read([base_command | o],
\* buffer of length len(p)), the buffer holds exactly p.
C5_RoundTrip ==
    \A o \in Offsets :
        ( /\ after_write_read
          /\ prev.fn = "write"
          /\ Len(prev.bytes) >= 2
          /\ Len(prev.bytes) - 1 <= ROWS_SIZE
          /\ prev.bytes[1] = command(o)
          /\ call.bytes = <<command(o)>>
          /\ Len(call.buffer) = Len(prev.bytes) - 1 )
        => /\ result = "Ok"
           /\ buffer = Tail(prev.bytes)

\* ROWS_SIZE bytes written at offset 5 were read back from offset 5.
C5_Witness ==
    /\ after_write_read
    /\ prev.fn = "write"
    /\ prev.bytes = <<command(5)>> \o ramp(240, ROWS_SIZE)
    /\ call.bytes = <<command(5)>>
    /\ result = "Ok"
    /\ buffer = ramp(240, ROWS_SIZE)
    /\ buffer[ROWS_SIZE] = 255

\* C6 (offset range): for every command byte c, the starting offset
\* c XOR base command lies in [0, ROWS_SIZE), and a write with a payload or
\* a write_read returns Ok rather than faulting.
C6_OffsetInRange ==
    ( \/ after_write /\ Len(call.bytes) >= 2
      \/ after_write_read /\ Len(call.bytes) >= 1 /\ Len(call.buffer) >= 1 )
    => /\ xor_u8(call.bytes[1], ROW_0) \in Offsets
       /\ result = "Ok"

\* C9 (empty input): a write or write_read whose byte sequence is empty
\* returns the error value, without panicking, and leaves data_values as
\* it was.
C9_EmptyInputIsError ==
    ( /\ after_write \/ after_write_read
      /\ call.bytes = <<>> )
    => /\ result = "Err"
       /\ data_values = old_values

----------------------------------------------------------------------------
(* Properties of transaction() *)

in_transaction ==
    call.fn \in {"blocking::transaction", "non_blocking::transaction"}
    /\ pc \in {"loop", "returned", "panicked"}

\* The positions of the Reads of ops that no Write immediately precedes.
bare_reads(ops) ==
    { i \in 1..Len(ops) :
        ops[i].kind = "Read" /\ (i = 1 \/ ops[i - 1].kind = "Read") }

\* C7 (transaction pairing): while transaction() walks its list, the
\* operations split off so far are a prefix of the list, each taken once and
\* in order; every Write taken that a Read immediately follows was passed
\* with that Read to one write_read call (two elements consumed, no write
\* call for it), every other Write taken was passed to write alone; and a
\* call that returns Ok has consumed the whole list.
C7_TransactionPairing ==
    in_transaction =>
        LET taken == Len(filled) IN
        /\ taken + Len(operations) = Len(start_ops)
        /\ operations = SubSeq(start_ops, taken + 1, Len(start_ops))
        /\ \A i \in 1..taken : filled[i].kind = start_ops[i].kind
        /\ \A j \in 1..Len(routed) :
              LET e == routed[j] IN
              /\ e.at = IF j = 1 THEN 1 ELSE routed[j - 1].at + routed[j - 1].n
              /\ e.at + e.n - 1 <= taken
              /\ start_ops[e.at].kind = "Write"
              /\ e.bytes = start_ops[e.at].bytes
              /\ IF e.at < Len(start_ops) /\ start_ops[e.at + 1].kind = "Read"
                 THEN /\ e.fn = "write_read"
                      /\ e.n = 2
                      /\ e.buffer = start_ops[e.at + 1].bytes
                 ELSE /\ e.fn = "write"
                      /\ e.n = 1
        /\ \A i \in 1..taken :
              start_ops[i].kind = "Write"
              => Cardinality({j \in 1..Len(routed) : routed[j].at = i}) = 1
        /\ (pc = "returned" /\ result = "Ok") => operations = <<>>

\* transaction([Write, Write, Read]) has returned: the first Write went to
\* write, the second with the Read to write_read.
C7_Witness ==
    /\ in_transaction
    /\ pc = "returned"
    /\ result = "Ok"
    /\ Len(start_ops) = 3
    /\ start_ops[1].kind = "Write" /\ Len(start_ops[1].bytes) = 3
    /\ start_ops[2].kind = "Write"
    /\ start_ops[3].kind = "Read"
    /\ Len(routed) = 2
    /\ routed[1].fn = "write" /\ routed[1].at = 1
    /\ routed[2].fn = "write_read" /\ routed[2].at = 2

\* C8 (bare read fails loudly): transaction() never returns for a list that
\* holds a Read not immediately preceded by a Write; when such a Read is
\* taken off the list the call has panicked, and that Read's buffer is as
\* the caller passed it.
C8_BareReadFails ==
    in_transaction =>
        /\ pc = "returned" => bare_reads(start_ops) = {}
        /\ \A i \in bare_reads(start_ops) :
              i <= Len(filled)
              => /\ pc = "panicked"
                 /\ result = "panic"
                 /\ filled[i] = start_ops[i]

\* transaction([Write, Read, Read]) over a non-zero RAM has panicked at the
\* second Read, after the first Read was filled.
C8_Witness ==
    /\ in_transaction
    /\ pc = "panicked"
    /\ Len(start_ops) = 3
    /\ start_ops[1] = Write(<<command(0)>>)
    /\ start_ops[2].kind = "Read"
    /\ start_ops[3].kind = "Read"
    /\ Len(filled) = 3
    /\ old_values[1] = 1
    /\ filled[2].bytes[1] = 1
    /\ filled[3] = start_ops[3]
    /\ Len(routed) = 1

\* What a transaction() call has left behind when it has ended.
observed ==
    [result |-> result, data_values |-> data_values,
     operations |-> filled \o operations]

\* C10 (sync/async equivalence): a blocking transaction() call that has
\* ended has the result, the final data_values and the buffers that
\* non_blocking::transaction produces from the same data_values and list,
\* and the other way round.
C10_SyncAsyncEquivalent ==
    (in_transaction /\ pc \in {"returned", "panicked"}) =>
        /\ call.fn = "blocking::transaction"
           => observed = non_blocking_transaction(call.address, old_values, start_ops, <<>>)
        /\ call.fn = "non_blocking::transaction"
           => observed = blocking_transaction(call.address, old_values, start_ops, <<>>)

\* The asynchronous transaction([Write 2 bytes at 15, Write, Read 18 bytes])
\* has returned with the RAM changed and the buffer read from it, as the
\* blocking one computes it.
C10_Witness ==
    /\ in_transaction
    /\ pc = "returned"
    /\ call.fn = "non_blocking::transaction"
    /\ start_ops = <<Write(<<command(ROWS_SIZE - 1), 1, 2>>),
                     Write(<<command(ROWS_SIZE - 1)>>),
                     Read(fresh_buffer(ROWS_SIZE + 2))>>
    /\ data_values # old_values
    /\ filled[3].bytes[1] = 1 /\ filled[3].bytes[2] = 2
    /\ filled[3].bytes[ROWS_SIZE + 1] = 1
    /\ observed = blocking_transaction(call.address, old_values, start_ops, <<>>)

\* What the transaction() implementation that was called produces from
\* data_values dv and the list ops when it is given the device address a.
same_transaction(a, dv, ops) ==
    IF call.fn = "blocking::transaction"
    THEN blocking_transaction(a, dv, ops, <<>>)
    ELSE non_blocking_transaction(a, dv, ops, <<>>)

\* C11 (device address is ignored): a transaction() call that has ended has
\* the result, the final data_values and the Read buffers that the same
\* call produces from the same data_values and operation list under every
\* other device address; so two runs that differ only in the addresses
\* agree call by call.
C11_AddressIgnored ==
    (in_transaction /\ pc \in {"returned", "panicked"}) =>
        \A a \in Addresses :
            observed = same_transaction(a, old_values, start_ops)

\* transaction(0x70, [Write 2 bytes at 15, Write, Read 18 bytes]) has
\* returned with the RAM changed and the buffer read from it, as it does
\* under address 0.
C11_Witness ==
    /\ in_transaction
    /\ pc = "returned"
    /\ call.address = 112
    /\ start_ops = <<Write(<<command(ROWS_SIZE - 1), 1, 2>>),
                     Write(<<command(ROWS_SIZE - 1)>>),
                     Read(fresh_buffer(ROWS_SIZE + 2))>>
    /\ data_values[ROWS_SIZE] = 1 /\ data_values[1] = 2
    /\ filled[3].bytes =
          [i \in 1..(ROWS_SIZE + 2) |->
              IF i \in {1, ROWS_SIZE + 1} THEN 1
              ELSE IF i \in {2, ROWS_SIZE + 2} THEN 2 ELSE 0]
    /\ observed = same_transaction(0, old_values, start_ops)

\* The elements of the sequence q.
bytes_of(q) == { q[i] : i \in 1..Len(q) }

\* Every payload byte a caller of this model ever passes in a Write.
payload_bytes ==
    UNION { bytes_of(Tail(op.bytes)) :
              op \in {o \in TxnOps : o.kind = "Write" /\ Len(o.bytes) >= 2} }

\* A step that changes data_values is the step of a write call carrying at
\* least one payload byte, and each changed byte is a byte of that payload.
changed_only_by_write ==
    data_values' # data_values =>
        /\ Len(routed') = Len(routed) + 1
        /\ LET e == routed'[Len(routed')] IN
           /\ e.fn = "write"
           /\ Len(e.bytes) >= 2
           /\ \A j \in 1..ROWS_SIZE :
                 data_values'[j] # data_values[j]
                 => data_values'[j] \in bytes_of(Tail(e.bytes))

\* C12 (DisplayRam state invariant): in every state reachable from new(),
\* data_values has exactly ROWS_SIZE bytes, it is all zeros before the
\* first call, every byte is 0 or a payload byte passed in a Write; and a
\* byte changes only in the step of a write that carries a payload
\* (write_read and length-1 writes never change it), to a byte of that
\* payload.
C12_DisplayRamInvariant ==
    /\ [](/\ Len(data_values) = ROWS_SIZE
          /\ ncalls = 0 => data_values = new
          /\ \A j \in 1..ROWS_SIZE : data_values[j] \in {0} \cup payload_bytes)
    /\ [][changed_only_by_write]_vars

\* In the second transaction() on this I2cMock a write has stored <<1, 2>>
\* at offset 15 over the <<1, 2>> that the first stored at offset 0.
C12_Witness ==
    /\ in_transaction
    /\ ncalls = 2
    /\ Len(data_values) = ROWS_SIZE
    /\ old_values[1] = 1 /\ old_values[2] = 2 /\ old_values[ROWS_SIZE] = 0
    /\ data_values[1] = 2 /\ data_values[2] = 2 /\ data_values[ROWS_SIZE] = 1
    /\ Len(routed) >= 1
    /\ routed[Len(routed)].fn = "write"
    /\ routed[Len(routed)].bytes = <<command(ROWS_SIZE - 1), 1, 2>>

\* Every Write of ops carries a command byte whose offset is in range.
well_formed_writes(ops) ==
    \A i \in 1..Len(ops) :
        ops[i].kind = "Write"
        => /\ Len(ops[i].bytes) >= 1
           /\ xor_u8(ops[i].bytes[1], ROW_0) \in Offsets

\* C13 as claimed (no partial completion), on lists whose Writes are all
\* well formed: a transaction() call that fails has had no effect at all;
\* data_values and every Read buffer are as they were when it was called.
C13_NoPartialCompletion ==
    ( /\ in_transaction
      /\ well_formed_writes(start_ops)
      /\ pc = "panicked" )
    => /\ data_values = old_values
       /\ filled \o operations = start_ops

\* What a read of k bytes from offset o of the RAM dv yields.
read_from(dv, o, k) == [i \in 1..k |-> dv[((o + i - 1) % ROWS_SIZE) + 1]]

\* One loop iteration of transaction() takes full effect or none: if it
\* fails, data_values and the operations it took are left as they were; if
\* it goes on, a Write+Read pair has filled the whole Read buffer from
\* data_values and a Write handled alone has stored its whole payload.
iteration_all_or_nothing ==
    (pc = "loop" /\ operations # <<>>) =>
        LET taken == Len(filled)
            first == operations[1]
            paired == Len(operations) >= 2 /\ operations[2].kind = "Read"
            o == xor_u8(first.bytes[1], ROW_0) IN
        IF pc' # "loop"
        THEN /\ data_values' = data_values
             /\ SubSeq(filled', taken + 1, Len(filled')) \o operations'
                    = operations
        ELSE /\ first.kind = "Write"
             /\ IF paired
                THEN /\ Len(filled') = taken + 2
                     /\ filled'[taken + 2].bytes =
                            read_from(data_values, o, Len(operations[2].bytes))
                     /\ data_values' = data_values
                ELSE /\ Len(filled') = taken + 1
                     /\ \A j \in Offsets :
                           LET p == Tail(first.bytes)
                               I == visits(o, Len(p), j) IN
                           data_values'[j + 1] =
                               IF I = {} THEN data_values[j + 1]
                               ELSE p[max_of(I) + 1]

\* C13 as amended: every operation that transaction() handles takes full
\* effect or none; a call that fails keeps the effects of the operations
\* handled before the failing one, and only those.
C13_OperationsAllOrNothing == [][iteration_all_or_nothing]_vars

\* transaction([Write, Read 18 bytes, Read 18 bytes]) over a non-zero RAM
\* has failed at the second Read with the first Read's buffer filled.
C13_Witness ==
    /\ in_transaction
    /\ pc = "panicked"
    /\ well_formed_writes(start_ops)
    /\ start_ops = <<Write(<<command(0)>>), Read(fresh_buffer(ROWS_SIZE + 2)),
                     Read(fresh_buffer(ROWS_SIZE + 2))>>
    /\ old_values[1] = 1 /\ old_values[2] = 2
    /\ filled[2].bytes = read_from(old_values, 0, ROWS_SIZE + 2)
    /\ filled[2] # start_ops[2]
    /\ filled[3] = start_ops[3]
    /\ data_values = old_values

ended == in_transaction /\ pc \in {"returned", "panicked"}

\* One loop iteration takes one operation off the slice, or two when it
\* handles a Write with the Read that follows it.
iteration_consumes ==
    (pc = "loop" /\ operations # <<>>) =>
        LET paired == /\ operations[1].kind = "Write"
                      /\ Len(operations) >= 2
                      /\ operations[2].kind = "Read" IN
        Len(operations') = Len(operations) - (IF paired THEN 2 ELSE 1)

\* C14 (run to completion): every transaction() call ends (its loop is
\* always left again, by returning or by panicking); each loop
\* iteration consumes one operation, or two for a Write+Read pair, so the
\* calls made never outnumber the operations consumed; and a call whose list
\* holds no bare Read and only Writes with an in-range command byte ends by
\* returning Ok with the list fully consumed.
C14_RunsToCompletion ==
    /\ [][iteration_consumes]_vars
    /\ [](in_transaction =>
             Len(routed) <= Len(start_ops) - Len(operations))
    /\ []((/\ ended
           /\ bare_reads(start_ops) = {}
           /\ well_formed_writes(start_ops))
          => /\ pc = "returned"
             /\ result = "Ok"
             /\ operations = <<>>
             /\ Len(filled) = Len(start_ops))
    /\ []<>(pc # "loop")

\* transaction([Write with payload, Write, Read]) has returned Ok after two
\* iterations that consumed the three operations.
C14_Witness ==
    /\ ended
    /\ pc = "returned"
    /\ result = "Ok"
    /\ bare_reads(start_ops) = {}
    /\ well_formed_writes(start_ops)
    /\ Len(start_ops) = 3
    /\ Len(start_ops[1].bytes) = 3
    /\ start_ops[3].kind = "Read"
    /\ operations = <<>>
    /\ Len(filled) = 3
    /\ Len(routed) = 2

\* What one loop iteration does with a Write that a Read immediately
\* follows: data_values is left as it was, whatever the Write carries after
\* its command byte; the pair goes to one write_read call; and when that
\* call returns, the Read buffer holds data_values as it was before the
\* pair, read from the offset of the command byte.
pair_discards_payload ==
    ( /\ pc = "loop"
      /\ Len(operations) >= 2
      /\ operations[1].kind = "Write"
      /\ operations[2].kind = "Read" )
    => /\ data_values' = data_values
       /\ Len(routed') = Len(routed) + 1
       /\ routed'[Len(routed')].fn = "write_read"
       /\ pc' = "loop"
          => /\ Len(filled') = Len(filled) + 2
             /\ filled'[Len(filled) + 1] = operations[1]
             /\ filled'[Len(filled) + 2].bytes =
                    read_from(data_values,
                              xor_u8(operations[1].bytes[1], ROW_0),
                              Len(operations[2].bytes))

\* C15 (payload of an address-setup write is discarded): when transaction()
\* handles a Write immediately followed by a Read, only the first byte of
\* the Write is used, as the offset the read starts from; the bytes after it
\* are not stored, so data_values is unchanged by the pair, and the Read
\* buffer is filled from data_values as it was before the pair.
C15_SetupPayloadDiscarded == [][pair_discards_payload]_vars

\* Over a RAM holding 1, 2 at indices 0, 1, transaction([Write[command(15),
\* 1, 2], Read 2 bytes]) has returned: the RAM is as it was and the buffer
\* holds the old values of indices 15 and 0, not the payload.
C15_Witness ==
    /\ in_transaction
    /\ pc = "returned"
    /\ result = "Ok"
    /\ start_ops = <<Write(<<command(ROWS_SIZE - 1), 1, 2>>),
                     Read(fresh_buffer(2))>>
    /\ old_values[1] = 1 /\ old_values[2] = 2 /\ old_values[ROWS_SIZE] = 0
    /\ data_values = old_values
    /\ filled[2].bytes = <<0, 1>>
    /\ Len(routed) = 1
    /\ routed[1].fn = "write_read"

\* The split points of ops that do not fall between a Write and the Read
\* immediately following it: k operations go to the first call.
split_points(ops) ==
    { k \in 0..Len(ops) :
        ~ ( /\ k >= 1
            /\ k < Len(ops)
            /\ ops[k].kind = "Write"
            /\ ops[k + 1].kind = "Read" ) }

\* transaction(first k operations) followed, when it returns Ok, by
\* transaction(the other operations) on the same I2cMock: the result of the
\* last call made, data_values after it, and the operations of both calls.
split_transaction(fn, address, dv, ops, k) ==
    LET prefix == SubSeq(ops, 1, k)
        suffix == SubSeq(ops, k + 1, Len(ops))
        p == IF fn = "blocking::transaction"
             THEN blocking_transaction(address, dv, prefix, <<>>)
             ELSE non_blocking_transaction(address, dv, prefix, <<>>) IN
    IF p.result # "Ok"
    THEN [result |-> p.result, data_values |-> p.data_values,
          operations |-> p.operations \o suffix]
    ELSE LET q == IF fn = "blocking::transaction"
                  THEN blocking_transaction(address, p.data_values, suffix, <<>>)
                  ELSE non_blocking_transaction(address, p.data_values, suffix, <<>>) IN
         [result |-> q.result, data_values |-> q.data_values,
          operations |-> p.operations \o q.operations]

\* C16 (transaction splitting): a transaction() call over a list with no
\* bare Read ends with the result, the data_values and the Read buffers that
\* transaction(prefix) followed by transaction(suffix) gives, for every split
\* point not between a Write and the Read that follows it; so no offset is
\* carried from one operation to the next; and transaction([]) returns Ok
\* and leaves data_values as it was.
C16_TransactionSplitting ==
    (ended /\ bare_reads(start_ops) = {}) =>
        /\ \A k \in split_points(start_ops) :
               observed = split_transaction(call.fn, call.address, old_values,
                                            start_ops, k)
        /\ start_ops = <<>>
           => /\ pc = "returned"
              /\ result = "Ok"
              /\ data_values = old_values

\* transaction([Write[command(0), 1, 2], Write[command(15), 1, 2], Read 2
\* bytes]) has returned on a cleared RAM: the list splits after its first
\* Write but not after its second; the first Write is stored and the Read
\* starts at the offset of the second.
C16_Witness ==
    /\ ended
    /\ pc = "returned"
    /\ result = "Ok"
    /\ old_values = new
    /\ start_ops = <<Write(<<command(0), 1, 2>>),
                     Write(<<command(ROWS_SIZE - 1), 1, 2>>),
                     Read(fresh_buffer(2))>>
    /\ split_points(start_ops) = {0, 1, 3}
    /\ data_values[1] = 1 /\ data_values[2] = 2
    /\ filled[3].bytes = <<0, 1>>

\* The call made last repeats the call before it: the same function with
\* the same bytes and a buffer of the same length, the command byte's
\* offset in range.
repeated(fn) ==
    /\ call.fn = fn
    /\ prev.fn = fn
    /\ prev.bytes = call.bytes
    /\ Len(prev.buffer) = Len(call.buffer)
    /\ Len(call.bytes) >= 1
    /\ xor_u8(call.bytes[1], ROW_0) \in Offsets

\* C17 (write idempotence and read repeatability): for every data_values,
\* in-range offset and payload, the same write applied a second time returns
\* Ok and leaves data_values as the first left it; and a second write_read
\* with the same command byte and buffer length, no write in between, fills
\* its buffer as the first did.
C17_RepeatIsStable ==
    /\ repeated("write")
       => /\ pc = "returned"
          /\ result = "Ok"
          /\ data_values = old_values
    /\ repeated("write_read")
       => /\ pc = "returned"
          /\ result = "Ok"
          /\ buffer = prev.buffer
          /\ data_values = old_values

\* write of MaxLen payload bytes (more than two turns of the RAM) from
\* offset 5 has been applied twice over a RAM that held other values.
C17_Witness ==
    /\ repeated("write")
    /\ pc = "returned"
    /\ call.bytes = <<command(5)>> \o ramp(1, MaxLen)
    /\ Len(call.bytes) - 1 > 2 * ROWS_SIZE
    /\ data_values = old_values
    /\ data_values # new
    /\ data_values[6] = MaxLen - 1

====
